---- MODULE Spec2Model ----
(***************************************************************************)
(* scripts/add_type_safety.py: a one-shot rewrite of TypeScript node       *)
(* classes.  File text is modelled as a sequence of lexical tokens, each a *)
(* record [k, v] whose v is the text the token stands for; the regular     *)
(* expressions of the script are modelled as matchers over those tokens.   *)
(***************************************************************************)
EXTENDS Integers, Sequences, FiniteSets, TLC

\* ---- bounds of the model ------------------------------------------------
NFiles == 2        \* files under the nodes directory (tree specification)
MaxPorts == 3      \* addInput/addOutput calls in one file body
MaxRuns == 2       \* invocations of main() on the same tree
MaxFailures == 1   \* read/write failures injected over all runs

\* ---- tokens ---------------------------------------------------------------
Tok(kind, text) == [k |-> kind, v |-> text]
EC == Tok("kw", "export class ")
CL == Tok("kw", "class ")
EXT == Tok("kw", " extends ")
IMPL == Tok("kw", " implements ")
W(n) == Tok("w", n)
Q(n) == Tok("q", n)
LT == Tok("p", "<")
GT == Tok("p", ">")
LB == Tok("p", "{")
LP == Tok("p", "(")
RP == Tok("p", ")")
COMMA == Tok("p", ",")
PIPE == Tok("p", " | ")
SP == Tok("s", " ")
NL == Tok("s", "\n")
NL2 == Tok("s", "\n  ")
AddInput(n) == Tok("addInput", n)
AddOutput(n) == Tok("addOutput", n)
AddInputNameNotFirst(n) == Tok("addInput_name_not_first", n)

None == ""

Min(S) == CHOOSE x \in S : \A y \in S : x <= y

\* ---- pure functions of the script ---------------------------------------
\* variant: the names are collected into a set-like list, first occurrence kept
RECURSIVE extract_port_names_dedup(_, _)
extract_port_names_dedup(file_content, method) ==
    IF file_content = <<>> THEN <<>>
    ELSE LET t == file_content[Len(file_content)]
             front == extract_port_names_dedup(
                          SubSeq(file_content, 1, Len(file_content) - 1), method)
         IN IF t.k = method /\ \A i \in 1..Len(front) : front[i] # t.v
            THEN Append(front, t.v) ELSE front

RECURSIVE extract_port_names(_, _)
extract_port_names(file_content, method) ==
    IF file_content = <<>> THEN <<>>
    ELSE LET t == Head(file_content)
             rest == extract_port_names(Tail(file_content), method)
         IN IF t.k = method THEN <<t.v>> \o rest ELSE rest

BaseMatches(c) ==
    {i \in 1..(Len(c) - 3) :
        c[i] = EC /\ c[i+1].k = "w" /\ c[i+2] = EXT /\ c[i+3].k = "w"}

get_base_class(file_content) ==
    IF BaseMatches(file_content) = {} THEN None
    ELSE file_content[Min(BaseMatches(file_content)) + 3].v

ClassMatches(c) ==
    {i \in 1..(Len(c) - 2) : c[i] = EC /\ c[i+1].k = "w" /\ c[i+2] = EXT}

get_class_name(file_content) ==
    IF ClassMatches(file_content) = {} THEN None
    ELSE file_content[Min(ClassMatches(file_content)) + 1].v

\* variant: 'extends \w+<.+>', whose '.' does not cross a line break
TypeParamsAt_single_line(c, i) ==
    /\ i + 4 <= Len(c)
    /\ c[i] = EXT /\ c[i+1].k = "w" /\ c[i+2] = LT
    /\ c[i+3] \notin {NL, NL2}
    /\ \E j \in (i+4)..Len(c) :
          c[j] = GT /\ \A m \in (i+3)..(j-1) : c[m] \notin {NL, NL2}

\* 'extends \w+<[^>]+>' found at token i: the closing '>' is the first one
\* after the '<', with at least one character between them.
TypeParamsAt(c, i) ==
    /\ i + 4 <= Len(c)
    /\ c[i] = EXT /\ c[i+1].k = "w" /\ c[i+2] = LT
    /\ c[i+3] # GT
    /\ \E j \in (i+4)..Len(c) : c[j] = GT

has_type_parameters(file_content) ==
    \E i \in 1..Len(file_content) : TypeParamsAt(file_content, i)

RECURSIVE Join(_)
Join(names) ==
    IF Len(names) = 1 THEN <<Q(names[1])>>
    ELSE <<Q(names[1]), PIPE>> \o Join(Tail(names))

\* variant: without the guard for the empty list the join gives the empty text
format_type_union_join_only(names) ==
    IF names = <<>> THEN <<>> ELSE Join(names)

format_type_union(names) ==
    IF names = <<>> THEN <<W("never")>>
    ELSE IF Len(names) = 1 THEN <<Q(names[1])>>
    ELSE Join(names)

\* number of whitespace tokens from position j on (the greedy '\s*')
RECURSIVE WsRun(_, _)
WsRun(c, j) ==
    IF j <= Len(c) /\ c[j].k = "s" THEN 1 + WsRun(c, j + 1) ELSE 0

\* length of the match of '(export class \w+ extends \w+)(\s*{)' at i, or 0
DeclMatch(c, i) ==
    IF /\ i + 4 <= Len(c)
       /\ c[i] = EC /\ c[i+1].k = "w" /\ c[i+2] = EXT /\ c[i+3].k = "w"
       /\ i + 4 + WsRun(c, i + 4) <= Len(c)
       /\ c[i + 4 + WsRun(c, i + 4)] = LB
    THEN 5 + WsRun(c, i + 4)
    ELSE 0

Replacement(input_type, output_type) ==
    <<LT, NL2>> \o input_type \o <<COMMA, NL2>> \o output_type \o <<NL, GT>>

\* re.sub without a count: every non-overlapping match, left to right
RECURSIVE re_sub(_, _, _)
re_sub(c, repl, i) ==
    IF i > Len(c) THEN <<>>
    ELSE IF DeclMatch(c, i) > 0
    THEN SubSeq(c, i, i + 3) \o repl
            \o SubSeq(c, i + 4, i + DeclMatch(c, i) - 1)
            \o re_sub(c, repl, i + DeclMatch(c, i))
    ELSE <<c[i]>> \o re_sub(c, repl, i + 1)

inject_type_parameters(file_content, inputs, outputs) ==
    IF has_type_parameters(file_content) THEN file_content
    ELSE re_sub(file_content,
                Replacement(format_type_union(inputs), format_type_union(outputs)),
                1)

dynamic_nodes == {"MergeNode", "SplitNode"}

\* variant: SplitNode left out of the list
is_dynamic_ports_node_merge_only(class_name) == class_name \in {"MergeNode"}

is_dynamic_ports_node(class_name) == class_name \in dynamic_nodes

base_classes == {"Node", "BaseThreeNode", "TweakpaneNode"}

\* the body of process_file between the read and the write (lines 82-118)
Skipped(class_name, why) ==
    [class_name |-> class_name, synth |-> FALSE,
     inputs |-> <<>>, outputs |-> <<>>,
     input_type |-> <<>>, output_type |-> <<>>,
     modified_content |-> <<>>, outcome |-> why]

process_file(content) ==
    LET class_name == get_class_name(content)
        inputs == IF is_dynamic_ports_node(class_name) THEN <<"string">>
                  ELSE extract_port_names(content, "addInput")
        outputs == IF is_dynamic_ports_node(class_name) /\ class_name = "SplitNode"
                   THEN <<"string">>
                   ELSE extract_port_names(content, "addOutput")
        modified_content == inject_type_parameters(content, inputs, outputs)
    IN  IF class_name = None THEN Skipped(class_name, "NoClassMatch")
        ELSE IF get_base_class(content) = None THEN Skipped(class_name, "NoBaseMatch")
        ELSE IF class_name \in base_classes THEN Skipped(class_name, "ReservedClass")
        ELSE IF has_type_parameters(content)
             THEN Skipped(class_name, "AlreadyAnnotated")
        ELSE [class_name |-> class_name, synth |-> TRUE,
              inputs |-> inputs, outputs |-> outputs,
              input_type |-> format_type_union(inputs),
              output_type |-> format_type_union(outputs),
              modified_content |-> modified_content,
              outcome |-> IF modified_content # content THEN "Modified"
                          ELSE "NoChangeSkipped"]

\* ---- file contents the model draws from --------------------------------
BaseName == "BaseThreeNode"

Header(shape, X) ==
    CASE shape = "none" -> <<>>
      [] shape = "plain" -> <<EC, W(X), EXT, W(BaseName), SP, LB>>
      [] shape = "tight" -> <<EC, W(X), EXT, W(BaseName), LB>>
      [] shape = "implements" ->
            <<EC, W(X), EXT, W(BaseName), IMPL, W("Serializable"), SP, LB>>
      [] shape = "typed" ->
            <<EC, W(X), EXT, W(BaseName), LT, Q("a"), COMMA, SP, W("never"), GT, SP, LB>>
      [] shape = "mixin" -> <<EC, W(X), EXT, LP, W(BaseName), RP, SP, LB>>

Headers ==
    {Header("plain", X) : X \in {"FooNode", "MergeNode", "SplitNode", "Node"}}
    \cup {Header(s, "FooNode") : s \in {"none", "tight", "implements", "typed", "mixin"}}

Trailer(shape) ==
    CASE shape = "none" -> <<>>
      [] shape = "second_export" -> <<NL, EC, W("BarNode"), EXT, W(BaseName), SP, LB>>
      [] shape = "generic_helper" ->
            <<NL, CL, W("Cache"), EXT, W("Map"), LT, W("string"), GT, SP, LB>>

Trailers == {Trailer(s) : s \in {"none", "second_export", "generic_helper"}}

PortCalls ==
    {AddInput("a"), AddInput("b"), AddOutput("a"), AddInputNameNotFirst("a")}

Bodies == UNION {[1..n -> PortCalls] : n \in 0..MaxPorts}

FileContents == {h \o b \o t : h \in Headers, b \in Bodies, t \in Trailers}

\* the tree specification draws from one file per outcome of process_file
TreeShapes ==
    {<<"none", "FooNode", <<AddInput("a")>>, "none">>,
     <<"plain", "FooNode", <<AddInput("a"), AddInput("b"), AddOutput("a")>>, "none">>,
     <<"plain", "MergeNode", <<>>, "none">>,
     <<"implements", "FooNode", <<AddInput("a")>>, "none">>,
     <<"plain", "FooNode", <<AddOutput("a")>>, "generic_helper">>,
     <<"plain", "FooNode", <<>>, "second_export">>}

TreeContents == {Header(x[1], x[2]) \o x[3] \o Trailer(x[4]) : x \in TreeShapes}

Sorted(S) ==
    CHOOSE s \in [1..Cardinality(S) -> S] : \A i, j \in 1..Cardinality(S) : i < j => s[i] < s[j]

\* ---- state ----------------------------------------------------------------
VARIABLES
    rootExists,      \* nodes_dir.exists()
    fs,              \* path -> text of the .ts files under nodes_dir
    pc,              \* position of main(): start, loop, write, done
    ts_files,        \* the discovered paths
    idx,             \* position of the for loop in sorted(ts_files)
    modified_count,
    skipped_count,
    frame,           \* locals of the current process_file call
    run,             \* which invocation of main() this is
    failures,        \* I/O failures injected so far
    before,          \* fs as it was when this invocation started
    outcome,         \* run -> path -> how process_file ended
    log,             \* file operations of this invocation, in order
    printed          \* the last report line of main()

vars == <<rootExists, fs, pc, ts_files, idx, modified_count, skipped_count,
          frame, run, failures, before, outcome, log, printed>>

NoFrame == [path |-> 0] @@ Skipped(None, "none")

InitRest ==
    /\ pc = "start"
    /\ ts_files = {}
    /\ idx = 0
    /\ modified_count = 0
    /\ skipped_count = 0
    /\ frame = NoFrame
    /\ run = 1
    /\ failures = 0
    /\ before = fs
    /\ outcome = [r \in 1..MaxRuns |-> [p \in DOMAIN fs |-> "none"]]
    /\ log = <<>>
    /\ printed = "nothing"

Trees(contents, n) == UNION {[1..m -> contents] : m \in 0..n}

Init ==
    /\ rootExists \in BOOLEAN
    /\ fs \in IF rootExists THEN Trees(TreeContents, NFiles) ELSE {<<>>}
    /\ InitRest

InitFile ==
    /\ rootExists \in BOOLEAN
    /\ fs \in IF rootExists THEN [{1} -> FileContents] ELSE {<<>>}
    /\ InitRest

\* ---- main() -----------------------------------------------------------------
\* where main() stands: before the directory test, at the head of the for
\* loop with a file left or with none left, or inside process_file before
\* the write
AtStart == pc = "start"
InLoop == pc = "loop" /\ idx <= Cardinality(ts_files)
LoopOver == pc = "loop" /\ idx > Cardinality(ts_files)
Writing == pc = "write"

\* variant: the return after the report is missing
main_missing_dir_falls_through ==
    /\ AtStart
    /\ ~rootExists
    /\ printed' = "not_found"
    /\ ts_files' = {}
    /\ idx' = 1
    /\ pc' = "loop"
    /\ UNCHANGED <<rootExists, fs, modified_count, skipped_count,
                   frame, run, failures, before, outcome, log>>

main_missing_dir ==
    /\ AtStart
    /\ ~rootExists
    /\ printed' = "not_found"
    /\ pc' = "done"
    /\ UNCHANGED <<rootExists, fs, ts_files, idx, modified_count, skipped_count,
                   frame, run, failures, before, outcome, log>>

main_scan ==
    /\ AtStart
    /\ rootExists
    /\ ts_files' = DOMAIN fs
    /\ modified_count' = 0
    /\ skipped_count' = 0
    /\ idx' = 1
    /\ pc' = "loop"
    /\ printed' = "found"
    /\ UNCHANGED <<rootExists, fs, frame, run, failures, before, outcome, log>>

file_path == Sorted(ts_files)[idx]

Returned(path, result, value, op) ==
    /\ outcome' = [outcome EXCEPT ![run][path] = result]
    /\ log' = Append(log, [op |-> op, path |-> path])
    /\ modified_count' = IF value THEN modified_count + 1 ELSE modified_count
    /\ skipped_count' = IF value THEN skipped_count ELSE skipped_count + 1
    /\ idx' = idx + 1
    /\ pc' = "loop"

\* variant: no try/except around the body, the failure leaves main()
process_file_read_error_propagates ==
    /\ InLoop
    /\ failures < MaxFailures
    /\ failures' = failures + 1
    /\ log' = Append(log, [op |-> "read_error", path |-> file_path])
    /\ pc' = "aborted"
    /\ printed' = "traceback"
    /\ UNCHANGED <<rootExists, fs, ts_files, idx, modified_count, skipped_count,
                   frame, run, before, outcome>>

process_file_read_error ==
    /\ InLoop
    /\ failures < MaxFailures
    /\ failures' = failures + 1
    /\ frame' = [NoFrame EXCEPT !.path = file_path, !.outcome = "Errored"]
    /\ Returned(file_path, "Errored", FALSE, "read_error")
    /\ printed' = "error"
    /\ UNCHANGED <<rootExists, fs, ts_files, run, before>>

\* variant: the text is written back before the outcome is decided
process_file_skip_writes ==
    /\ InLoop
    /\ LET r == process_file(fs[file_path])
       IN /\ r.outcome # "Modified"
          /\ frame' = [path |-> file_path] @@ r
          /\ Returned(file_path, r.outcome, FALSE, "read")
          /\ fs' = [fs EXCEPT ![file_path] =
                        re_sub(fs[file_path],
                               Replacement(format_type_union(r.inputs),
                                           format_type_union(r.outputs)), 1)]
    /\ printed' = "skipped"
    /\ UNCHANGED <<rootExists, ts_files, run, failures, before>>

process_file_skip ==
    /\ InLoop
    /\ LET r == process_file(fs[file_path])
       IN /\ r.outcome # "Modified"
          /\ frame' = [path |-> file_path] @@ r
          /\ Returned(file_path, r.outcome, FALSE, "read")
    /\ printed' = "skipped"
    /\ UNCHANGED <<rootExists, fs, ts_files, run, failures, before>>

process_file_splice ==
    /\ InLoop
    /\ LET r == process_file(fs[file_path])
       IN /\ r.outcome = "Modified"
          /\ frame' = [path |-> file_path] @@ r
    /\ log' = Append(log, [op |-> "read", path |-> file_path])
    /\ pc' = "write"
    /\ printed' = "processing"
    /\ UNCHANGED <<rootExists, fs, ts_files, idx, modified_count, skipped_count,
                   run, failures, before, outcome>>

\* variant: the 'return True' after the write is missing
process_file_write_returns_false ==
    /\ Writing
    /\ fs' = [fs EXCEPT ![frame.path] = frame.modified_content]
    /\ Returned(frame.path, "Modified", FALSE, "write")
    /\ printed' = "added"
    /\ UNCHANGED <<rootExists, ts_files, frame, run, failures, before>>

process_file_write ==
    /\ Writing
    /\ fs' = [fs EXCEPT ![frame.path] = frame.modified_content]
    /\ Returned(frame.path, "Modified", TRUE, "write")
    /\ printed' = "added"
    /\ UNCHANGED <<rootExists, ts_files, frame, run, failures, before>>

\* what a write_text that raises can leave behind: the old text (the open
\* failed) or a proper prefix of the new text (the file was truncated and
\* the data only partly flushed)
FailedWrites(old, new) == {old} \cup {SubSeq(new, 1, k) : k \in 0..(Len(new) - 1)}

process_file_write_error ==
    /\ Writing
    /\ failures < MaxFailures
    /\ failures' = failures + 1
    /\ \E left \in FailedWrites(fs[frame.path], frame.modified_content) :
          fs' = [fs EXCEPT ![frame.path] = left]
    /\ frame' = [frame EXCEPT !.outcome = "Errored"]
    /\ Returned(frame.path, "Errored", FALSE, "write_error")
    /\ printed' = "error"
    /\ UNCHANGED <<rootExists, ts_files, run, before>>

main_summary ==
    /\ LoopOver
    /\ printed' = "summary"
    /\ pc' = "done"
    /\ UNCHANGED <<rootExists, fs, ts_files, idx, modified_count, skipped_count,
                   frame, run, failures, before, outcome, log>>

\* the script is invoked again on the tree the last invocation left
main_again ==
    /\ pc = "done"
    /\ run < MaxRuns
    /\ run' = run + 1
    /\ pc' = "start"
    /\ ts_files' = {}
    /\ idx' = 0
    /\ modified_count' = 0
    /\ skipped_count' = 0
    /\ frame' = NoFrame
    /\ before' = fs
    /\ log' = <<>>
    /\ printed' = "nothing"
    /\ UNCHANGED <<rootExists, fs, failures, outcome>>

Next ==
    \/ main_missing_dir
    \/ main_scan
    \/ process_file_read_error
    \/ process_file_skip
    \/ process_file_splice
    \/ process_file_write
    \/ process_file_write_error
    \/ main_summary
    \/ main_again

Spec == Init /\ [][Next]_vars

SpecFile == InitFile /\ [][Next]_vars

\* ---- vocabulary of the properties --------------------------------------
SkipOutcomes ==
    {"NoClassMatch", "NoBaseMatch", "ReservedClass", "AlreadyAnnotated", "NoChangeSkipped"}

Paths == DOMAIN fs

Ops(path, kinds) == {i \in 1..Len(log) : log[i].path = path /\ log[i].op \in kinds}

NotModified == {p \in Paths : outcome[run][p] \in SkipOutcomes \cup {"Errored"}}

RunHadNoFailure(r) == \A p \in Paths : outcome[r][p] \notin {"none", "Errored"}

\* the token positions of the calls of one category, and the rank of one
CallsAt(c, method) == {i \in 1..Len(c) : c[i].k = method}

Rank(c, method, i) == Cardinality({j \in CallsAt(c, method) : j <= i})

NoPortCalls(c) ==
    \A i \in 1..Len(c) :
        c[i].k \notin {"addInput", "addOutput", "addInput_name_not_first"}

Never == <<W("never")>>

\* C1: once an invocation has processed every file without an I/O failure,
\* the next invocation modifies no file; every file the first one modified
\* then passes has_type_parameters, and every file that passes it at the
\* start of an invocation keeps its text and is counted as skipped.
C1_SecondRunModifiesNothing ==
    /\ (run > 1 /\ RunHadNoFailure(run - 1)) =>
          /\ pc # "write"
          /\ modified_count = 0
          /\ fs = before
          /\ \A p \in Paths :
                /\ outcome[run][p] # "Modified"
                /\ outcome[run - 1][p] = "Modified" => has_type_parameters(fs[p])
    /\ \A p \in Paths :
          (has_type_parameters(before[p]) /\ outcome[run][p] \notin {"none", "Errored"}) =>
              /\ fs[p] = before[p]
              /\ outcome[run][p] \in SkipOutcomes
              /\ p \in NotModified
    /\ pc \in {"loop", "done"} /\ rootExists =>
          skipped_count = Cardinality(NotModified)

C1_Witness ==
    /\ run = 2 /\ pc = "done" /\ printed = "summary"
    /\ RunHadNoFailure(1) /\ RunHadNoFailure(2)
    /\ \E p, q \in Paths :
          /\ outcome[1][p] = "Modified" /\ outcome[2][p] = "AlreadyAnnotated"
          /\ outcome[1][q] = "AlreadyAnnotated"

\* C2: a file that ends in a skip outcome is never written: no write is
\* logged for it, its text is what it was when the invocation started, and
\* it is counted in skipped_count.
C2_SkipNeverWrites ==
    /\ \A p \in Paths :
          outcome[run][p] \in SkipOutcomes =>
              /\ fs[p] = before[p]
              /\ Ops(p, {"write", "write_error"}) = {}
              /\ Cardinality(Ops(p, {"read"})) = 1
    /\ pc \in {"loop", "done"} /\ rootExists =>
          /\ skipped_count = Cardinality(NotModified)
          /\ modified_count + skipped_count = idx - 1

C2_Witness ==
    /\ pc = "done"
    /\ frame.outcome = "NoChangeSkipped"
    /\ outcome[run][frame.path] = "NoChangeSkipped"
    /\ skipped_count = 1

\* C3 as stated: a rewritable file without any addInput or addOutput call
\* gets never for both annotations, whatever the class name.
C3_NeverForAnyClass ==
    (frame.synth /\ NoPortCalls(before[frame.path])) =>
        frame.input_type = Never /\ frame.output_type = Never

\* C3 as amended: the same, for class names other than MergeNode and
\* SplitNode.
C3_NeverForStaticClass ==
    (/\ frame.synth
     /\ NoPortCalls(before[frame.path])
     /\ frame.class_name \notin {"MergeNode", "SplitNode"}) =>
        /\ frame.input_type = Never /\ frame.output_type = Never
        /\ outcome[run][frame.path] = "Modified" =>
              \E i \in 1..Len(fs[frame.path]) :
                  SubSeq(fs[frame.path], i, i + 7)
                      = <<LT, NL2, W("never"), COMMA, NL2, W("never"), NL, GT>>

C3_Witness ==
    /\ frame.synth
    /\ frame.class_name = "FooNode"
    /\ NoPortCalls(before[frame.path])
    /\ outcome[run][frame.path] = "Modified"

\* C4: for MergeNode the input annotation, and for SplitNode both, is the
\* one placeholder 'string' whatever calls the file contains; the output
\* annotation of MergeNode is what scanning the addOutput calls gives.
C4_DynamicPlaceholder ==
    frame.synth =>
        /\ frame.class_name \in {"MergeNode", "SplitNode"} =>
              frame.input_type = <<Q("string")>>
        /\ frame.class_name = "SplitNode" => frame.output_type = <<Q("string")>>
        /\ frame.class_name = "MergeNode" =>
              LET c == before[frame.path]
                  n == Cardinality(CallsAt(c, "addOutput"))
              IN /\ n = 0 => frame.output_type = Never
                 /\ n > 0 => /\ Len(frame.output_type) = 2 * n - 1
                             /\ \A i \in CallsAt(c, "addOutput") :
                                   frame.output_type[2 * Rank(c, "addOutput", i) - 1]
                                       = Q(c[i].v)

C4_Witness ==
    /\ frame.synth
    /\ frame.class_name = "SplitNode"
    /\ CallsAt(before[frame.path], "addInput") # {}
    /\ CallsAt(before[frame.path], "addOutput") # {}
    /\ outcome[run][frame.path] = "Modified"

\* the annotation lists the calls of one category: one term per call
TermsFollowCalls(annotation, c, method) ==
    LET n == Cardinality(CallsAt(c, method))
    IN IF n = 0 THEN annotation = Never
       ELSE /\ Len(annotation) = 2 * n - 1
            /\ \A i \in CallsAt(c, method) :
                  annotation[2 * Rank(c, method, i) - 1] = Q(c[i].v)
            /\ \A k \in 1..(n - 1) : annotation[2 * k] = PIPE

\* C5: the annotation of a scanned category is never when no call matched,
\* and otherwise one quoted literal per matched call, in the order of the
\* calls in the text, separated by ' | ', duplicates included.
C5_OneTermPerCall ==
    frame.synth =>
        /\ frame.class_name \notin {"MergeNode", "SplitNode"} =>
              TermsFollowCalls(frame.input_type, before[frame.path], "addInput")
        /\ frame.class_name # "SplitNode" =>
              TermsFollowCalls(frame.output_type, before[frame.path], "addOutput")

C5_Witness ==
    /\ frame.synth
    /\ frame.class_name = "FooNode"
    /\ frame.inputs = <<"a", "b", "a">>
    /\ frame.input_type = <<Q("a"), PIPE, Q("b"), PIPE, Q("a")>>
    /\ frame.output_type = Never

\* C6: a failed read or write of one file does not end the invocation: the
\* file is counted in skipped_count, the loop moves on to the next file,
\* and the invocation ends with every discovered file processed and the
\* summary printed.
C6_FailureStaysInFile ==
    /\ pc \in {"start", "loop", "write", "done"}
    /\ \A p \in Paths :
          outcome[run][p] = "Errored" =>
              /\ p \in NotModified
              /\ skipped_count = Cardinality(NotModified)
              /\ Ops(p, {"write"}) = {}
              /\ pc \in {"loop", "write", "done"}
              /\ idx > p
    /\ (pc = "done" /\ rootExists) =>
          /\ printed = "summary"
          /\ \A p \in Paths : outcome[run][p] # "none"
          /\ modified_count + skipped_count = Cardinality(Paths)

C6_Witness ==
    /\ pc = "done" /\ printed = "summary"
    /\ \E p, q \in Paths :
          /\ p < q
          /\ outcome[run][p] = "Errored"
          /\ outcome[run][q] = "Modified"
          /\ modified_count = 1 /\ skipped_count = 1

\* C7: with the nodes directory missing, main() reports that and returns;
\* nothing is discovered, read or written and both counters stay at zero.
C7_MissingDirectory ==
    ~rootExists =>
        /\ pc \in {"start", "done"}
        /\ pc = "done" => printed = "not_found"
        /\ ts_files = {}
        /\ log = <<>>
        /\ fs = before
        /\ modified_count = 0 /\ skipped_count = 0
        /\ \A r \in 1..MaxRuns : \A p \in Paths : outcome[r][p] = "none"

C7_Witness == ~rootExists /\ pc = "done" /\ printed = "not_found" /\ run = MaxRuns

\* the first 'export class X extends Y' is directly followed by '<...>'
DeclarationAnnotated(c) ==
    /\ ClassMatches(c) # {}
    /\ TypeParamsAt(c, Min(ClassMatches(c)) + 2)

\* C8 as stated: a file that reaches the already-annotated check is
\* skipped there exactly when the first 'export class X extends Y' of its
\* text is directly followed by an angle-bracket list.
C8_DecisionIsAboutDeclaration ==
    (frame.synth \/ frame.outcome = "AlreadyAnnotated") =>
        (frame.outcome = "AlreadyAnnotated" <=> DeclarationAnnotated(before[frame.path]))

\* the text with the parameter list put into the first declaration only
SplicedOnce(c, input_type, output_type) ==
    LET i == Min(ClassMatches(c))
    IN SubSeq(c, 1, i + 3) \o Replacement(input_type, output_type)
          \o SubSeq(c, i + 4, Len(c))

\* C9 as stated: the text written for a modified file is the old text with
\* the parameter list put after the base class name of the first
\* 'export class X extends Y', and nothing else changed.
C9_OneDeclarationSpliced ==
    \A p \in Paths :
        (outcome[run][p] = "Modified" /\ frame.path = p) =>
            fs[p] = SplicedOnce(before[p], frame.input_type, frame.output_type)

\* the reads of this invocation, failed ones included, in order
Reads == SelectSeq(log, LAMBDA e : e.op \in {"read", "read_error"})

C10_State ==
    rootExists =>
        /\ \A i \in 1..Len(Reads) : Reads[i].path = Sorted(Paths)[i]
        /\ Len(Reads) = (IF pc = "start" THEN 0 ELSE idx - (IF pc = "write" THEN 0 ELSE 1))
        /\ \A i \in 1..Len(log) :
              log[i].op \in {"write", "write_error"} =>
                  i > 1 /\ log[i - 1] = [op |-> "read", path |-> log[i].path]
        /\ \A p \in Paths :
              /\ Cardinality(Ops(p, {"read", "read_error"})) <= 1
              /\ Cardinality(Ops(p, {"write", "write_error"})) <= 1
              /\ outcome[run][p] # "none" <=> (Ops(p, {"read", "read_error"}) # {} /\ (pc = "write" => frame.path # p))
              /\ outcome[run][p] = "Modified" <=> Ops(p, {"write"}) # {}
              /\ Ops(p, {"write"}) # {} => fs[p] # before[p]
        /\ modified_count = Cardinality({p \in Paths : Ops(p, {"write"}) # {}})
        /\ pc = "done" =>
              /\ modified_count + skipped_count = Cardinality(ts_files)
              /\ ts_files = Paths
              /\ \A p \in Paths : outcome[run][p] # "none"

\* an upper limit on the steps this invocation still has to take
StepsLeft ==
    CASE pc = "done" -> 0
      [] pc = "start" -> 2 * Cardinality(Paths) + 2
      [] pc = "loop" -> 2 * (Cardinality(ts_files) - idx + 1) + 1
      [] pc = "write" -> 2 * (Cardinality(ts_files) - idx + 1)

C10_Progress ==
    pc # "done" => /\ StepsLeft' < StepsLeft
                   /\ StepsLeft' >= 0
                   /\ run' = run

====
